---- MODULE Spec2Model ----
(***************************************************************************)
(* ProcessManager (src/setup/services/processManager.ts) as a state        *)
(* machine.  One action is one task of the Node event loop: a call of      *)
(* start() or stop(), an event of a child process, or a timer.  The        *)
(* promise continuations a task makes runnable (the rest of start() after      *)
(* `await waitForServerReady()`, the rest of stop() after                  *)
(* `await Promise.all`) run inside the same action, in the order they were *)
(* made runnable, because the microtask queue is drained before the next   *)
(* task starts.                                                                *)
(***************************************************************************)
EXTENDS Integers, Sequences, FiniteSets, TLC

\* ---- bounds ----
MaxCalls == 2          \* calls of start() and stop() that pass their state check
MaxOut == 3            \* pieces of stdout SpecOut records for one process
MaxStartsOut == 1      \* calls of start() in SpecOut, SpecEnv, SpecStops, SpecLive and SpecReg
MaxTime == 2           \* the latest value of Date.now() in SpecClock
MaxRegs == 4           \* calls of onStatusChange and of the functions it returned, in SpecReg
MaxStops == 2          \* calls of stop() in SpecStops and SpecLive
MaxEmojiCalls == 3     \* calls of getEmojiList in SpecEmoji
MaxEmojiNow == 3       \* the latest value of Date.now() in SpecEmoji

\* ---- values ----
NoUrl == "null"        \* threadUrl: null
NoSession == 0         \* sessionId: null
NoTime == 0            \* startedAt: null
NoProc == 0            \* serverProcess / electronProcess: null
Urls == {"urlA", "urlB"}
Observers == {1, 2}
Throwers == {1}        \* observers whose callback throws whenever it is called
\* What a callback does with the snapshot it is called with, besides
\* reading it: nothing, or a call of stop() or start() of its own.
Reactions == {"none", "stopOnStarting", "stopOnRunning", "startOnIdle"}
ExitCodes == {0, 1}
Marker == <<"Server ", "running on">>      \* 'Server running on', in two pieces
Chunks == {Marker, <<"Server ">>, <<"running on">>, <<"other">>}
KillOutcomes == {"true", "throw"}
EnvKeys == {"SLACK_BOT_TOKEN", "PATH"}
EnvVals == {"own", "given"}
\* Environments: a value for some of the keys.
EnvMaps == UNION {[D -> EnvVals] : D \in SUBSET EnvKeys}
EmptyEnv == [k \in {} |-> "own"]
\* What process.env can be: the value "own" for some of the keys.
OwnEnvs == {e \in EnvMaps : \A k \in DOMAIN e : e[k] = "own"}
\* ---- the setup server's values ----

NoDecryptedEnv == [set |-> FALSE, env |-> EmptyEnv]       \* decryptedEnv: null
\* What /api/decrypt hands over.
DecryptedEnvs == {[k \in {"SLACK_BOT_TOKEN"} |-> "given"]}
WsObserver == 2        \* the callback setupServer.ts registers; it does not throw

\* Strings a request body can carry as threadUrl.
GoodUrl == "https://my-team.slack.com/archives/C01AB/p1700"
ShortUrl == "https://t_1.slack.com/archives/9/p0"
BadUrls ==
  {"http://my-team.slack.com/archives/C01AB/p1700",
   "https://my-team.slack.com/archives/c01ab/p1700",
   "https://my-team.slack.com/archives/C01AB/p1700?x",
   "https://.slack.com/archives/C01AB/p1700",
   "https://my-team.slack.com/archives/C01AB/p",
   "https://my.team.slack.com/archives/C01AB/p1700",
   "https://my-teamxslack.com/archives/C01AB/p1700",
   "xhttps://my-team.slack.com/archives/C01AB/p1700"}

\* The characters of those strings.
Chars(u) ==
  CASE u = "https://my-team.slack.com/archives/C01AB/p1700" ->
         <<"h", "t", "t", "p", "s", ":", "/", "/", "m", "y", "-", "t", "e", "a", "m", ".", "s", "l", "a", "c", "k", ".", "c", "o", "m", "/", "a", "r", "c", "h", "i", "v", "e", "s", "/", "C", "0", "1", "A", "B", "/", "p", "1", "7", "0", "0">>
    [] u = "https://t_1.slack.com/archives/9/p0" ->
         <<"h", "t", "t", "p", "s", ":", "/", "/", "t", "_", "1", ".", "s", "l", "a", "c", "k", ".", "c", "o", "m", "/", "a", "r", "c", "h", "i", "v", "e", "s", "/", "9", "/", "p", "0">>
    [] u = "http://my-team.slack.com/archives/C01AB/p1700" ->
         <<"h", "t", "t", "p", ":", "/", "/", "m", "y", "-", "t", "e", "a", "m", ".", "s", "l", "a", "c", "k", ".", "c", "o", "m", "/", "a", "r", "c", "h", "i", "v", "e", "s", "/", "C", "0", "1", "A", "B", "/", "p", "1", "7", "0", "0">>
    [] u = "https://my-team.slack.com/archives/c01ab/p1700" ->
         <<"h", "t", "t", "p", "s", ":", "/", "/", "m", "y", "-", "t", "e", "a", "m", ".", "s", "l", "a", "c", "k", ".", "c", "o", "m", "/", "a", "r", "c", "h", "i", "v", "e", "s", "/", "c", "0", "1", "a", "b", "/", "p", "1", "7", "0", "0">>
    [] u = "https://my-team.slack.com/archives/C01AB/p1700?x" ->
         <<"h", "t", "t", "p", "s", ":", "/", "/", "m", "y", "-", "t", "e", "a", "m", ".", "s", "l", "a", "c", "k", ".", "c", "o", "m", "/", "a", "r", "c", "h", "i", "v", "e", "s", "/", "C", "0", "1", "A", "B", "/", "p", "1", "7", "0", "0", "?", "x">>
    [] u = "https://.slack.com/archives/C01AB/p1700" ->
         <<"h", "t", "t", "p", "s", ":", "/", "/", ".", "s", "l", "a", "c", "k", ".", "c", "o", "m", "/", "a", "r", "c", "h", "i", "v", "e", "s", "/", "C", "0", "1", "A", "B", "/", "p", "1", "7", "0", "0">>
    [] u = "https://my-team.slack.com/archives/C01AB/p" ->
         <<"h", "t", "t", "p", "s", ":", "/", "/", "m", "y", "-", "t", "e", "a", "m", ".", "s", "l", "a", "c", "k", ".", "c", "o", "m", "/", "a", "r", "c", "h", "i", "v", "e", "s", "/", "C", "0", "1", "A", "B", "/", "p">>
    [] u = "https://my.team.slack.com/archives/C01AB/p1700" ->
         <<"h", "t", "t", "p", "s", ":", "/", "/", "m", "y", ".", "t", "e", "a", "m", ".", "s", "l", "a", "c", "k", ".", "c", "o", "m", "/", "a", "r", "c", "h", "i", "v", "e", "s", "/", "C", "0", "1", "A", "B", "/", "p", "1", "7", "0", "0">>
    [] u = "https://my-teamxslack.com/archives/C01AB/p1700" ->
         <<"h", "t", "t", "p", "s", ":", "/", "/", "m", "y", "-", "t", "e", "a", "m", "x", "s", "l", "a", "c", "k", ".", "c", "o", "m", "/", "a", "r", "c", "h", "i", "v", "e", "s", "/", "C", "0", "1", "A", "B", "/", "p", "1", "7", "0", "0">>
    [] u = "xhttps://my-team.slack.com/archives/C01AB/p1700" ->
         <<"x", "h", "t", "t", "p", "s", ":", "/", "/", "m", "y", "-", "t", "e", "a", "m", ".", "s", "l", "a", "c", "k", ".", "c", "o", "m", "/", "a", "r", "c", "h", "i", "v", "e", "s", "/", "C", "0", "1", "A", "B", "/", "p", "1", "7", "0", "0">>

\* body.threadUrl: absent, a number, or a string.
Undefined == [type |-> "undefined", value |-> ""]
JsString(u) == [type |-> "string", value |-> u]
BodyUrls ==
  {Undefined, [type |-> "number", value |-> 0], [type |-> "number", value |-> 5], JsString("")}
    \cup {JsString(u) : u \in {GoodUrl, ShortUrl} \cup BadUrls}

EMOJI_CACHE_TTL == 2   \* one hour, in steps of Date.now()
NoEmoji == [n \in {} |-> <<>>]           \* result.emoji is undefined, or {}
NoCache == [data |-> NoEmoji, timestamp |-> 0, set |-> FALSE]    \* emojiCache: null
AliasPrefix == <<"alias:">>
EmojiNames == {"party", "tada"}
EmojiUrls == {<<"https://", "party.png">>, <<"alias:", "party">>}
\* What client.emoji.list() can resolve with: result.emoji.
EmojiResults == {NoEmoji} \cup [{"party"} -> EmojiUrls] \cup
                {e \in [EmojiNames -> EmojiUrls] : e["party"] # e["tada"]}

VARIABLES
  state, threadUrl, sessionId, startedAt,   \* ProcessManager fields
  serverProcess, electronProcess,           \* process handles (index in procs)
  callbacks,                                \* Set<StatusChangeCallback>, in insertion order
  procs,                                    \* every ChildProcess spawn has returned
  attempts,                                 \* every start() that passed the idle check
  kwaits,                                   \* every promise killProcess has made
  stops,                                    \* every stop() that passed the idle check
  now,                                      \* Date.now(); only Tick and EmojiTick advance it
  prev,                                     \* `state` when the latest task began
  assigned,                                 \* the values setState assigned in the latest task
  delivered,                                \* per observer, the snapshots the latest task called it with
  lastCall,                                 \* the call the latest task made, if any, and how it returned
  removed,                                  \* history kept by SpecObs: the observers whose
                                            \* unsubscribe function was called and who have
                                            \* not subscribed again
  reaction,                                 \* per observer, what its callback does; only
                                            \* SpecReent subscribes callbacks that act
  invoked,                                  \* the observers the latest task called, in call order
  regs,                                     \* history kept by SpecReg: every onStatusChange(o)
                                            \* and every call of a function it returned
  listening,                                \* setupServer.ts: createSetupServer has run
  decryptedEnv,                             \* setupServer.ts: decryptedEnv, or null
  wsClients,                                \* setupServer.ts: the open WebSocket clients
  apiIn,                                    \* the request the latest task handled, if any
  apiOut,                                   \* what the setup server sent in the latest task
  emojiCache,                               \* emojiCache.ts: the module's cache, or null
  emojiCalls                                \* every call of getEmojiList, in call order

vars == <<state, threadUrl, sessionId, startedAt, serverProcess, electronProcess,
          callbacks, procs, attempts, kwaits, stops, now,
          prev, assigned, delivered, lastCall, removed, reaction, invoked, regs,
          listening, decryptedEnv, wsClients, apiIn, apiOut,
          emojiCache, emojiCalls>>

CallOf(op, id, result) == [op |-> op, id |-> id, result |-> result]
NoCall == CallOf("none", 0, "none")

\* ---- the setup server: routes/statusRoute.ts, routes/controlRoute.ts ----

\* A mapping that never says ready.
mapProcessStatusToApiStatus_noReady(processStatus, hasEnv) ==
  [state |-> processStatus.state, threadUrl |-> processStatus.threadUrl,
   sessionId |-> processStatus.sessionId, uptime |-> processStatus.uptime]

mapProcessStatusToApiStatus(processStatus, hasEnv) ==
  [state |-> IF processStatus.state = "idle"
             THEN (IF hasEnv THEN "ready" ELSE "idle")
             ELSE processStatus.state,
   threadUrl |-> processStatus.threadUrl,
   sessionId |-> processStatus.sessionId,
   uptime |-> processStatus.uptime]

createStatusMessage(processStatus, hasEnv) ==
  [type |-> "status", data |-> mapProcessStatusToApiStatus(processStatus, hasEnv)]

\* A request: its route and its body's threadUrl.
Request(route, v) == [route |-> route, threadUrl |-> v]
NoRequest == Request("none", Undefined)

\* Something the setup server sent: the answer to a request, or a
\* WebSocket message to a client.
Out(kind, to, code, body) == [kind |-> kind, to |-> to, code |-> code, body |-> body]

\* JSON.stringify(status) to every open client, in the set's order.
RECURSIVE SendAll(_, _)
SendAll(clients, status) ==
  IF clients = {} THEN <<>>
  ELSE LET c == CHOOSE x \in clients : \A y \in clients : x <= y
       IN <<Out("ws", c, 0, status)>> \o SendAll(clients \ {c}, status)

\* broadcastStatus() called when the manager is as processStatus says.
broadcastStatus(m, processStatus) ==
  SendAll(m.wsClients, createStatusMessage(processStatus, m.decryptedEnv.set))

\* The observer of setupServer.ts: broadcastStatus() at each call; the
\* status it reads with getStatus() is the snapshot setState made.
RECURSIVE Broadcasts(_, _)
Broadcasts(m, snaps) ==
  IF snaps = <<>> THEN <<>>
  ELSE broadcastStatus(m, Head(snaps)) \o Broadcasts(m, Tail(snaps))

\* ---- SLACK_THREAD_URL_PATTERN ----

Digit == {"0", "1", "2", "3", "4", "5", "6", "7", "8", "9"}
Upper ==
  {"A", "B", "C", "D", "E", "F", "G", "H", "I", "J", "K", "L", "M", "N", "O", "P", "Q", "R", "S", "T", "U", "V", "W", "X", "Y", "Z"}
Word ==
  Digit \cup Upper \cup {"_"} \cup
  {"a", "b", "c", "d", "e", "f", "g", "h", "i", "j", "k", "l", "m", "n", "o", "p", "q", "r", "s", "t", "u", "v", "w", "x", "y", "z"}                   \* \w

\* The literal lit at place i of s: the place after it, or 0 for no match
\* (and 0 stays 0).
Lit(s, i, lit) ==
  IF i # 0 /\ i + Len(lit) - 1 <= Len(s) /\ SubSeq(s, i, i + Len(lit) - 1) = lit
  THEN i + Len(lit) ELSE 0

\* The place after the characters of class at place i and on.
RECURSIVE Skip(_, _, _)
Skip(s, i, class) ==
  IF i <= Len(s) /\ s[i] \in class THEN Skip(s, i + 1, class) ELSE i

\* class+ at place i: nothing after any of these classes in the pattern can
\* begin with a character of the class, so the longest run is the only
\* match to try.
Plus(s, i, class) ==
  IF i # 0 /\ i <= Len(s) /\ s[i] \in class THEN Skip(s, i, class) ELSE 0

\* A pattern without its anchors: the match may begin and end anywhere.
test_unanchored(s) ==
  \E b \in 1..Len(s) :
    Plus(s, Lit(s, Plus(s, Lit(s, Plus(s, Lit(s, b, <<"h", "t", "t", "p", "s", ":", "/", "/">>),
                                       Word \cup {"-"}),
                               <<".", "s", "l", "a", "c", "k", ".", "c", "o", "m", "/", "a", "r", "c", "h", "i", "v", "e", "s", "/">>),
                        Upper \cup Digit),
                <<"/", "p">>),
         Digit) # 0

\* SLACK_THREAD_URL_PATTERN.test(s):
\* /^https:\/\/[\w-]+\.slack\.com\/archives\/[A-Z0-9]+\/p\d+$/
test(s) ==
  Plus(s, Lit(s, Plus(s, Lit(s, Plus(s, Lit(s, 1, <<"h", "t", "t", "p", "s", ":", "/", "/">>),
                                     Word \cup {"-"}),
                             <<".", "s", "l", "a", "c", "k", ".", "c", "o", "m", "/", "a", "r", "c", "h", "i", "v", "e", "s", "/">>),
                      Upper \cup Digit),
              <<"/", "p">>),
       Digit) = Len(s) + 1

\* !value, for the values a body can carry.
Falsy(v) ==
  \/ v.type = "undefined"
  \/ v.type = "number" /\ v.value = 0
  \/ v.type = "string" /\ v.value = ""

\* The message of the Error start() rejects with.
Message(err) ==
  CASE err = "already" -> "Process already running"
    [] err = "timeout" -> "Server startup timeout"
    [] err = "error" -> "Server failed to start: spawn error"
    [] err = "exit" -> "Server exited with code 1"
    [] err = "spawn" -> "spawn failed"

\* The catch of POST /api/start.
startFailed(err) ==
  IF Message(err) = "Process already running"
  THEN Out("POST /api/start", 0, 409, [success |-> FALSE, error |-> "Process already running"])
  ELSE Out("POST /api/start", 0, 500, [success |-> FALSE, error |-> Message(err)])

\* POST /api/start after its await, for the calls of start() that settled
\* in the task that led from m0 to m: attempts a and later.
RECURSIVE startAnswers(_, _, _)
startAnswers(m0, m, a) ==
  IF a > Len(m.attempts) THEN <<>>
  ELSE (IF /\ a <= Len(m0.attempts) => m0.attempts[a].outcome = "pending"
           /\ m.attempts[a].outcome # "pending"
        THEN <<IF m.attempts[a].outcome = "ok"
               THEN Out("POST /api/start", a, 200, [success |-> TRUE, sessionId |-> m.attempts[a].result])
               ELSE [startFailed(m.attempts[a].outcome) EXCEPT !.to = a]>>
        ELSE <<>>) \o startAnswers(m0, m, a + 1)

\* POST /api/stop after its await, in the same way: stop() s and later.
RECURSIVE stopAnswers(_, _, _)
stopAnswers(m0, m, k) ==
  IF k > Len(m.stops) THEN <<>>
  ELSE (IF /\ k <= Len(m0.stops) => m0.stops[k].outcome = "pending"
           /\ m.stops[k].outcome # "pending"
        THEN <<Out("POST /api/stop", k, IF m.stops[k].outcome = "resolved" THEN 200 ELSE 500,
                   [success |-> m.stops[k].outcome = "resolved"])>>
        ELSE <<>>) \o stopAnswers(m0, m, k + 1)

\* Everything the setup server sent in the task that led from m0 to m:
\* what the handler sent itself, the answers of the requests whose start()
\* settled, and one broadcast for each call of the observer.
Sent(m0, m) ==
  m.apiOut \o startAnswers(m0, m, 1) \o stopAnswers(m0, m, 1)
           \o Broadcasts(m, m.delivered[WsObserver])

\* The whole state as one record at the beginning of a task; `mq` is the
\* microtask queue of the running task (empty between tasks) and `penv`
\* is process.env as the task finds it.
Cur ==
  [state |-> state, threadUrl |-> threadUrl, sessionId |-> sessionId,
   startedAt |-> startedAt, serverProcess |-> serverProcess,
   electronProcess |-> electronProcess, callbacks |-> callbacks,
   procs |-> procs, attempts |-> attempts, kwaits |-> kwaits, stops |-> stops,
   now |-> now, prev |-> state, assigned |-> <<>>,
   delivered |-> [o \in Observers |-> <<>>], lastCall |-> NoCall,
   removed |-> removed, reaction |-> reaction, invoked |-> <<>>, regs |-> regs,
   listening |-> listening, decryptedEnv |-> decryptedEnv, wsClients |-> wsClients,
   apiIn |-> NoRequest, apiOut |-> <<>>,
   penv |-> EmptyEnv, mq |-> <<>>]

Commit(m) ==
  /\ state' = m.state
  /\ threadUrl' = m.threadUrl
  /\ sessionId' = m.sessionId
  /\ startedAt' = m.startedAt
  /\ serverProcess' = m.serverProcess
  /\ electronProcess' = m.electronProcess
  /\ callbacks' = m.callbacks
  /\ procs' = m.procs
  /\ attempts' = m.attempts
  /\ kwaits' = m.kwaits
  /\ stops' = m.stops
  /\ now' = m.now
  /\ prev' = m.prev
  /\ assigned' = m.assigned
  /\ delivered' = m.delivered
  /\ lastCall' = m.lastCall
  /\ removed' = m.removed
  /\ reaction' = m.reaction
  /\ invoked' = m.invoked
  /\ regs' = m.regs
  /\ listening' = m.listening
  /\ decryptedEnv' = m.decryptedEnv
  /\ wsClients' = m.wsClients
  /\ apiIn' = m.apiIn
  /\ apiOut' = IF m.listening THEN Sent(Cur, m) ELSE <<>>
  /\ UNCHANGED <<emojiCache, emojiCalls>>

\* getStatus(): uptime is computed from startedAt alone.
getStatus(m) ==
  [state |-> m.state, threadUrl |-> m.threadUrl, sessionId |-> m.sessionId,
   startedAt |-> m.startedAt,
   uptime |-> IF m.startedAt # NoTime THEN m.now - m.startedAt ELSE 0]

\* callback(status) of observer o ends by throwing.
Throws(o) == o \in Throwers

\* A loop without try/catch: a callback that throws ends it.
callbackReturns_noCatch(o) == ~Throws(o)

\* try { callback(status) } catch { }: however the callback ends, the loop
\* of setState goes on to the next one.
callbackReturns(o) == TRUE

RECURSIVE setState(_, _)
RECURSIVE start(_, _, _, _)
RECURSIVE stop(_, _, _)

\* callback(status) of observer o: it gets the snapshot and, if it is a
\* callback that acts, calls stop() or start() before it returns.
callback(m, o, status) ==
  LET got == [m EXCEPT !.delivered[o] = Append(@, status), !.invoked = Append(@, o)]
  IN CASE \/ m.reaction[o] = "stopOnStarting" /\ status.state = "starting"
          \/ m.reaction[o] = "stopOnRunning" /\ status.state = "running" ->
            stop(got, "true", "true")
       [] m.reaction[o] = "startOnIdle" /\ status.state = "idle" ->
            start(got, "urlA", EmptyEnv, TRUE)
       [] OTHER -> got

\* The for-loop of setState: every callback of the set, in insertion order,
\* is called with the same snapshot.
RECURSIVE Deliver(_, _, _)
Deliver(m, cbs, status) ==
  IF cbs = <<>> THEN m
  ELSE Deliver(callback(m, Head(cbs), status),
               IF callbackReturns(Head(cbs)) THEN Tail(cbs) ELSE <<>>,
               status)

setState(m, newState) ==
  LET m1 == [m EXCEPT !.state = newState, !.assigned = Append(@, newState)]
  IN Deliver(m1, m1.callbacks, getStatus(m1))

\* A cleanup that tells no observer.
cleanup_silent(m) ==
  [m EXCEPT !.serverProcess = NoProc, !.electronProcess = NoProc,
            !.threadUrl = NoUrl, !.sessionId = NoSession,
            !.startedAt = NoTime, !.state = "idle", !.assigned = Append(@, "idle")]

\* A cleanup that leaves threadUrl as it is.
cleanup_keepsUrl(m) ==
  setState([m EXCEPT !.serverProcess = NoProc, !.electronProcess = NoProc,
                     !.sessionId = NoSession, !.startedAt = NoTime], "idle")

cleanup(m) ==
  setState([m EXCEPT !.serverProcess = NoProc, !.electronProcess = NoProc,
                     !.threadUrl = NoUrl, !.sessionId = NoSession,
                     !.startedAt = NoTime], "idle")

\* ---- child processes (Node's ChildProcess, as the code uses it) ----

\* options.spawn(command, args, {env, stdio}): a new handle with no
\* listeners, created with the environment env.
spawn(m, kind, env) ==
  [m EXCEPT !.procs = Append(@, [kind |-> kind, env |-> env,
                                 exited |-> FALSE, killed |-> FALSE,
                                 log |-> <<>>, out |-> <<>>,
                                 listeners |-> <<>>])]

\* A spread in the other order: inherited values win.
processEnv_inheritedWins(inherited, env) ==
  [k \in DOMAIN inherited \cup DOMAIN env |->
     IF k \in DOMAIN inherited THEN inherited[k] ELSE env[k]]

\* {...process.env, ...Object.fromEntries(env)}
processEnv(inherited, env) ==
  [k \in DOMAIN inherited \cup DOMAIN env |->
     IF k \in DOMAIN env THEN env[k] ELSE inherited[k]]

\* proc.kill(signal) throws: only a live handle can fail this way.
killThrows(m, p, outcome) == ~m.procs[p].exited /\ outcome = "throw"

\* proc.kill(signal): the call is logged.  On a live handle it delivers the
\* signal, sets `killed` and answers true, or it throws; on a handle that
\* has exited it answers false and leaves `killed` alone.
kill(m, p, sig, outcome) ==
  [m EXCEPT !.procs[p].log = Append(@, sig),
            !.procs[p].killed = @ \/ (~m.procs[p].exited /\ outcome = "true")]

Listener(type, id) == [type |-> type, id |-> id]
Task(type, id, err) == [type |-> type, id |-> id, err |-> err]

\* ---- promises ----

\* clearTimeout(timeout) of waitForServerReady
clearStartTimer(m, a) ==
  [m EXCEPT !.attempts[a].timer = IF @ = "armed" THEN "cleared" ELSE @]

\* reject(...) of waitForServerReady: the first settlement wins; the catch
\* block of start() becomes runnable.
rejectWait(m, a, err) ==
  IF m.attempts[a].wait = "pending"
  THEN [m EXCEPT !.attempts[a].wait = "rejected",
                 !.mq = Append(@, Task("startCatch", a, err))]
  ELSE m

\* A resolve() that takes effect on a promise already settled.
resolveWait_again(m, a) ==
  [m EXCEPT !.attempts[a].wait = "resolved",
            !.mq = Append(@, Task("startCont", a, "none"))]

\* resolve() of waitForServerReady: start() continues after the await.
resolveWait(m, a) ==
  IF m.attempts[a].wait = "pending"
  THEN [m EXCEPT !.attempts[a].wait = "resolved",
                 !.mq = Append(@, Task("startCont", a, "none"))]
  ELSE m

\* Promise.all(stopPromises) is fulfilled when every promise of the stop is.
allResolved(m, s) == \A k \in m.stops[s].waits : m.kwaits[k].settled = "resolved"

\* resolve() of killProcess; stop() continues once Promise.all is fulfilled.
resolveKill(m, k) ==
  IF m.kwaits[k].settled = "pending"
  THEN LET m1 == [m EXCEPT !.kwaits[k].settled = "resolved"]
           s == m.kwaits[k].stop
       IN IF m1.stops[s].outcome = "pending" /\ allResolved(m1, s)
          THEN [m1 EXCEPT !.mq = Append(@, Task("stopDone", s, "none"))]
          ELSE m1
  ELSE m

\* ---- private methods ----

\* waitForServerReady(): the timer, the stdout listener and the error and
\* exit listeners, all on this.serverProcess.
waitForServerReady(m, a) ==
  LET p == m.serverProcess
  IN [m EXCEPT !.attempts[a].timer = "armed",
               !.attempts[a].onData = TRUE,
               !.procs[p].listeners = @ \o <<Listener("waitError", a),
                                             Listener("waitExit", a)>>]

\* setupProcessListeners(): handleExit on whatever the two fields hold now.
setupProcessListeners(m) ==
  LET m1 == IF m.serverProcess # NoProc
            THEN [m EXCEPT !.procs[m.serverProcess].listeners =
                              Append(@, Listener("handleExit", 0))]
            ELSE m
  IN IF m1.electronProcess # NoProc
     THEN [m1 EXCEPT !.procs[m1.electronProcess].listeners =
                        Append(@, Listener("handleExit", 0))]
     ELSE m1

\* handleExit without its test of the state.
handleExit_always(m) == cleanup(m)

\* handleExit testing for the wrong state.
handleExit_whenStopping(m) == IF m.state = "stopping" THEN cleanup(m) ELSE m

\* handleExit of setupProcessListeners
handleExit(m) == IF m.state = "running" THEN cleanup(m) ELSE m

\* killProcess(proc) called by stop number s.
killProcess(m, p, s, outcome) ==
  LET k == Len(m.kwaits) + 1
  IN IF m.procs[p].killed
     THEN [m EXCEPT !.kwaits = Append(@, [proc |-> p, stop |-> s, timer |-> "none",
                                          settled |-> "resolved"]),
                    !.stops[s].waits = @ \cup {k}]
     ELSE LET m1 == [m EXCEPT !.kwaits = Append(@, [proc |-> p, stop |-> s,
                                                    timer |-> "armed",
                                                    settled |-> "pending"]),
                              !.stops[s].waits = @ \cup {k},
                              !.procs[p].listeners = Append(@, Listener("killOnce", k))]
              m2 == kill(m1, p, "SIGTERM", outcome)
          IN IF killThrows(m1, p, outcome)
             THEN [m2 EXCEPT !.kwaits[k].settled = "rejected"]
             ELSE m2

\* `return this.sessionId` of start().
startReturns(m, a) ==
  [m EXCEPT !.attempts[a].outcome = "ok", !.attempts[a].result = m.sessionId]

\* start() after `await this.waitForServerReady()` has resolved.
startCont(m, a, spawnOk) ==
  IF ~spawnOk
  THEN [cleanup(m) EXCEPT !.attempts[a].outcome = "spawn"]
  ELSE LET m1 == spawn(m, "electron", processEnv(m.attempts[a].penv, m.attempts[a].env))
           m2 == [m1 EXCEPT !.electronProcess = Len(m1.procs)]
           m3 == setupProcessListeners(m2)
       IN startReturns(setState([m3 EXCEPT !.startedAt = m3.now], "running"), a)

\* A catch block that rethrows without cleaning up.
startCatch_noCleanup(m, a, err) == [m EXCEPT !.attempts[a].outcome = err]

\* The catch block of start().
startCatch(m, a, err) == [cleanup(m) EXCEPT !.attempts[a].outcome = err]

\* A stop() that returns after the await without cleanup().
stopDone_noCleanup(m, s) == [m EXCEPT !.stops[s].outcome = "resolved"]

\* stop() after `await Promise.all(stopPromises)`.
stopDone(m, s) ==
  [cleanup(m) EXCEPT !.stops[s].outcome = "resolved",
                     !.lastCall = IF m.lastCall = CallOf("stop", s, "pending")
                                  THEN CallOf("stop", s, "resolved") ELSE @]

\* Drain the microtask queue.
RECURSIVE RunMicrotasks(_, _)
RunMicrotasks(m, spawnOk) ==
  IF m.mq = <<>> THEN m
  ELSE LET t == Head(m.mq)
           m1 == [m EXCEPT !.mq = Tail(@)]
       IN RunMicrotasks(
            CASE t.type = "startCatch" -> startCatch(m1, t.id, t.err)
              [] t.type = "startCont" -> startCont(m1, t.id, spawnOk)
              [] t.type = "stopDone" -> stopDone(m1, t.id),
            spawnOk)

\* ---- public methods ----

\* start() refusing only a running manager.
startRejects_onlyRunning(m) == m.state = "running"

\* The check that opens start(): anything but idle is refused.
startRejects(m) == m.state # "idle"

\* stop() without its early return.
stopReturns_never(m) == FALSE

\* The check that opens stop(): idle returns at once.
stopReturns(m) == m.state = "idle"

\* start() from the assignment of threadUrl to its first await: call
\* number a, made with process.env = penv.
startServer(m, a, url, env, penv, spawnOk) ==
  LET m2 == [m EXCEPT !.threadUrl = url, !.sessionId = a,
                      !.attempts = Append(@, [env |-> env, penv |-> penv,
                                              proc |-> NoProc,
                                              timer |-> "none", onData |-> FALSE,
                                              wait |-> "none", outcome |-> "pending",
                                              result |-> NoSession])]
  IN IF ~spawnOk
     THEN [startCatch(m2, a, "spawn") EXCEPT
             !.lastCall = CallOf("start", a, "rejected")]
     ELSE LET m3 == spawn(m2, "server", processEnv(penv, env))
              m4 == [m3 EXCEPT !.serverProcess = Len(m3.procs),
                               !.attempts[a].proc = Len(m3.procs),
                               !.attempts[a].wait = "pending"]
          IN [waitForServerReady(m4, a) EXCEPT
                !.lastCall = CallOf("start", a, "pending")]

\* start(threadUrl, env) up to its first await.
start(m, url, env, spawnOk) ==
  IF startRejects(m)
  THEN [m EXCEPT !.lastCall = CallOf("start", 0, "already")]
  ELSE startServer(setState(m, "starting"), Len(m.attempts) + 1, url, env, m.penv, spawnOk)

\* stop() number s from `const stopPromises` to `await Promise.all`: when
\* nothing is left to wait for, the rest of stop() is runnable at once.
stopPromises(m, s, oE, oS) ==
  LET m2 == [m EXCEPT !.stops = Append(@, [outcome |-> "pending", waits |-> {}])]
      m3 == IF m2.electronProcess # NoProc /\ ~m2.procs[m2.electronProcess].killed
            THEN killProcess(m2, m2.electronProcess, s, oE)
            ELSE m2
      m4 == IF m3.serverProcess # NoProc /\ ~m3.procs[m3.serverProcess].killed
            THEN killProcess(m3, m3.serverProcess, s, oS)
            ELSE m3
  IN IF \E k \in m4.stops[s].waits : m4.kwaits[k].settled = "rejected"
     THEN [m4 EXCEPT !.stops[s].outcome = "rejected",
                     !.lastCall = CallOf("stop", s, "rejected")]
     ELSE IF allResolved(m4, s)
     THEN [m4 EXCEPT !.mq = Append(@, Task("stopDone", s, "none")),
                     !.lastCall = CallOf("stop", s, "pending")]
     ELSE [m4 EXCEPT !.lastCall = CallOf("stop", s, "pending")]

\* stop() up to `await Promise.all(stopPromises)`.
stop(m, oE, oS) ==
  IF stopReturns(m)
  THEN [m EXCEPT !.lastCall = CallOf("stop", 0, "resolved")]
  ELSE stopPromises(setState(m, "stopping"), Len(m.stops) + 1, oE, oS)

\* A list of callbacks instead of a set: a second registration is a
\* second entry.
onStatusChange_push(m, o) == [m EXCEPT !.callbacks = Append(@, o)]

\* onStatusChange(callback): Set.add keeps the first insertion.
onStatusChange(m, o) ==
  IF \E i \in 1..Len(m.callbacks) : m.callbacks[i] = o THEN m
  ELSE [m EXCEPT !.callbacks = Append(@, o)]

\* An unsubscribe function that deletes nothing.
unsubscribe_none(m, o) == m

\* The function onStatusChange returns: Set.delete.
unsubscribe(m, o) ==
  [m EXCEPT !.callbacks = SelectSeq(@, LAMBDA x : x # o)]

\* ---- events ----

\* An exit listener of waitForServerReady that clears the timer whatever
\* the code and rejects only on a code other than 0.
onExit_clearsAlways(m, l, code) ==
  CASE l.type = "waitExit" ->
         IF code # 0 THEN rejectWait(clearStartTimer(m, l.id), l.id, "exit")
         ELSE clearStartTimer(m, l.id)
    [] l.type = "handleExit" -> handleExit(m)
    [] l.type = "killOnce" ->
         resolveKill([m EXCEPT !.kwaits[l.id].timer =
                                  IF @ = "armed" THEN "cleared" ELSE @], l.id)
    [] OTHER -> m

\* One listener of a process's 'exit' event.
onExit(m, l, code) ==
  CASE l.type = "waitExit" ->
         IF code # 0 THEN rejectWait(clearStartTimer(m, l.id), l.id, "exit") ELSE m
    [] l.type = "handleExit" -> handleExit(m)
    [] l.type = "killOnce" ->
         resolveKill([m EXCEPT !.kwaits[l.id].timer =
                                  IF @ = "armed" THEN "cleared" ELSE @], l.id)
    [] OTHER -> m

RECURSIVE emitExit(_, _, _)
emitExit(m, ls, code) ==
  IF ls = <<>> THEN m ELSE emitExit(onExit(m, Head(ls), code), Tail(ls), code)

\* One listener of a process's 'error' event.
onError(m, l) ==
  IF l.type = "waitError"
  THEN rejectWait(clearStartTimer(m, l.id), l.id, "error")
  ELSE m

RECURSIVE emitError(_, _)
emitError(m, ls) ==
  IF ls = <<>> THEN m ELSE emitError(onError(m, Head(ls)), Tail(ls))

\* output.includes(marker): marker occurs in output as a contiguous run.
includes(output, marker) ==
  \E i \in 1..(Len(output) - Len(marker) + 1) :
    SubSeq(output, i, i + Len(marker) - 1) = marker

\* onData of waitForServerReady for attempt a, one chunk.
onData(m, a, chunk) ==
  IF includes(chunk, Marker)
  THEN LET m1 == clearStartTimer(m, a)
           m2 == IF m1.serverProcess = m1.attempts[a].proc
                 THEN [m1 EXCEPT !.attempts[a].onData = FALSE]
                 ELSE m1
       IN resolveWait(m2, a)
  ELSE m

RECURSIVE emitData(_, _, _, _)
emitData(m, p, a, chunk) ==
  IF a > Len(m.attempts) THEN m
  ELSE emitData(IF m.attempts[a].proc = p /\ m.attempts[a].onData
                THEN onData(m, a, chunk) ELSE m,
                p, a + 1, chunk)

Init ==
  /\ state = "idle"
  /\ threadUrl = NoUrl
  /\ sessionId = NoSession
  /\ startedAt = NoTime
  /\ serverProcess = NoProc
  /\ electronProcess = NoProc
  /\ callbacks = <<>>
  /\ procs = <<>>
  /\ attempts = <<>>
  /\ kwaits = <<>>
  /\ stops = <<>>
  /\ now = 1
  /\ prev = "idle"
  /\ assigned = <<>>
  /\ delivered = [o \in Observers |-> <<>>]
  /\ lastCall = NoCall
  /\ removed = {}
  /\ reaction = [o \in Observers |-> "none"]
  /\ invoked = <<>>
  /\ regs = <<>>
  /\ listening = FALSE
  /\ decryptedEnv = NoDecryptedEnv
  /\ wsClients = {}
  /\ apiIn = NoRequest
  /\ apiOut = <<>>
  /\ emojiCache = NoCache
  /\ emojiCalls = <<>>

\* ---- actions: one task of the event loop each ----

Subscribed(o) == \E i \in 1..Len(callbacks) : callbacks[i] = o

Start(url, spawnOk) ==
  /\ state = "idle" => Len(attempts) + Len(stops) < MaxCalls
  /\ Commit(RunMicrotasks(start(Cur, url, EmptyEnv, spawnOk), TRUE))

Stop(oE, oS) ==
  /\ state # "idle" => Len(attempts) + Len(stops) < MaxCalls
  /\ Commit(RunMicrotasks(stop(Cur, oE, oS), TRUE))

Subscribe(o) == Commit(onStatusChange(Cur, o))

Unsubscribe(o) ==
  /\ \E i \in 1..Len(callbacks) : callbacks[i] = o
  /\ Commit(unsubscribe(Cur, o))

\* The server writes a chunk to stdout.
ProcData(p, chunk, spawnOk) ==
  /\ procs[p].kind = "server"
  /\ Commit(RunMicrotasks(emitData(Cur, p, 1, chunk), spawnOk))

\* A process ends and its 'exit' event is emitted.
ProcExit(p, code) ==
  /\ ~procs[p].exited
  /\ Commit(RunMicrotasks(
       emitExit([Cur EXCEPT !.procs[p].exited = TRUE,
                            !.procs[p].log = Append(@, "exit")],
                procs[p].listeners, code), TRUE))

\* The server's 'error' event (it always has waitForServerReady's listener).
ProcError(p) ==
  /\ procs[p].kind = "server"
  /\ ~procs[p].exited
  /\ Commit(RunMicrotasks(emitError(Cur, procs[p].listeners), TRUE))

\* The timer of waitForServerReady fires.
StartTimeout(a) ==
  /\ attempts[a].timer = "armed"
  /\ Commit(RunMicrotasks(
       rejectWait([Cur EXCEPT !.attempts[a].timer = "fired"], a, "timeout"), TRUE))

\* forceKillTimeout of killProcess fires.  (A kill that throws here is an
\* uncaught exception of the timer callback and ends the Node process.)
StopTimeout(k, outcome) ==
  /\ kwaits[k].timer = "armed"
  /\ LET p == kwaits[k].proc
         m1 == [Cur EXCEPT !.kwaits[k].timer = "fired"]
         m2 == IF ~m1.procs[p].killed THEN kill(m1, p, "SIGKILL", outcome) ELSE m1
     IN Commit(RunMicrotasks(resolveKill(m2, k), TRUE))

\* The outcomes worth choosing for a kill of handle p: none when stop()
\* will not call kill on it.
OutcomesFor(p) ==
  IF p # NoProc /\ ~procs[p].killed /\ ~procs[p].exited THEN KillOutcomes ELSE {"true"}

\* The outcomes worth choosing for the spawn of Electron when p writes a
\* chunk: none unless a start() is waiting for it.
SpawnsFor(p, chunk) ==
  IF includes(chunk, Marker) /\ \E a \in 1..Len(attempts) :
       attempts[a].proc = p /\ attempts[a].onData /\ attempts[a].wait = "pending"
  THEN BOOLEAN ELSE {TRUE}

\* The chunks worth choosing where no stdout is kept: the marker in one
\* chunk and one chunk without it (onData tells no others apart).
WholeChunks == {c \in Chunks : includes(c, Marker) \/ c = <<"other">>}

Next ==
  \/ \E url \in Urls, spawnOk \in BOOLEAN :
       /\ state # "idle" => url = "urlA" /\ spawnOk    \* a refused start() reads neither
       /\ Start(url, spawnOk)
  \/ \E oE \in OutcomesFor(electronProcess), oS \in OutcomesFor(serverProcess) : Stop(oE, oS)
  \/ \E o \in Observers : Subscribe(o)
  \/ \E o \in Observers : Unsubscribe(o)
  \/ \E p \in 1..Len(procs), chunk \in WholeChunks :
       \E spawnOk \in SpawnsFor(p, chunk) : ProcData(p, chunk, spawnOk)
  \/ \E p \in 1..Len(procs), code \in ExitCodes : ProcExit(p, code)
  \/ \E p \in 1..Len(procs) : ProcError(p)
  \/ \E a \in 1..Len(attempts) : StartTimeout(a)
  \/ \E k \in 1..Len(kwaits) : StopTimeout(k, "true")

Spec == Init /\ [][Next]_vars

\* ---- the same program with the history of unsubscriptions kept ----

SubscribeObs(o) ==
  Commit([onStatusChange(Cur, o) EXCEPT !.removed = @ \ {o}])

\* The function onStatusChange(o) returned is called, for the first time
\* or again.
UnsubscribeObs(o) ==
  /\ Subscribed(o) \/ o \in removed
  /\ Commit([unsubscribe(Cur, o) EXCEPT !.removed = @ \cup {o}])

NextObs ==
  \/ \E url \in Urls, spawnOk \in BOOLEAN :
       /\ state # "idle" => url = "urlA" /\ spawnOk
       /\ Start(url, spawnOk)
  \/ \E oE \in OutcomesFor(electronProcess), oS \in OutcomesFor(serverProcess) : Stop(oE, oS)
  \/ \E o \in Observers : SubscribeObs(o)
  \/ \E o \in Observers : UnsubscribeObs(o)
  \/ \E p \in 1..Len(procs), chunk \in WholeChunks :
       \E spawnOk \in SpawnsFor(p, chunk) : ProcData(p, chunk, spawnOk)
  \/ \E p \in 1..Len(procs), code \in ExitCodes : ProcExit(p, code)
  \/ \E p \in 1..Len(procs) : ProcError(p)
  \/ \E a \in 1..Len(attempts) : StartTimeout(a)
  \/ \E k \in 1..Len(kwaits) : StopTimeout(k, "true")

SpecObs == Init /\ [][NextObs]_vars

\* ---- start() alone, with the stdout of each process kept ----

\* The server writes a chunk to stdout while a start() waits for it; what
\* it has written so far is recorded in `out`.
ProcDataOut(p, chunk, spawnOk) ==
  /\ procs[p].kind = "server"
  /\ \E a \in 1..Len(attempts) : attempts[a].proc = p /\ attempts[a].wait = "pending"
  /\ Len(procs[p].out) + Len(chunk) <= MaxOut
  /\ Commit(RunMicrotasks(
       emitData([Cur EXCEPT !.procs[p].out = @ \o chunk], p, 1, chunk), spawnOk))

NextOut ==
  \/ \E url \in Urls, spawnOk \in BOOLEAN :
       /\ state # "idle" => url = "urlA" /\ spawnOk
       /\ state = "idle" => Len(attempts) < MaxStartsOut
       /\ Start(url, spawnOk)
  \/ \E p \in 1..Len(procs), chunk \in Chunks :
       \E spawnOk \in SpawnsFor(p, chunk) : ProcDataOut(p, chunk, spawnOk)
  \/ \E p \in 1..Len(procs), code \in ExitCodes : ProcExit(p, code)
  \/ \E a \in 1..Len(attempts) : StartTimeout(a)

SpecOut == Init /\ [][NextOut]_vars

\* ---- the same program with a clock that advances ----

\* Time passes between two tasks.
Tick ==
  /\ now < MaxTime
  /\ Commit([Cur EXCEPT !.now = @ + 1])

NextClock ==
  \/ \E url \in Urls, spawnOk \in BOOLEAN :
       /\ state # "idle" => url = "urlA" /\ spawnOk
       /\ Start(url, spawnOk)
  \/ \E oE \in OutcomesFor(electronProcess), oS \in OutcomesFor(serverProcess) : Stop(oE, oS)
  \/ \E o \in Observers : Subscribe(o)
  \/ \E p \in 1..Len(procs), chunk \in WholeChunks :
       \E spawnOk \in SpawnsFor(p, chunk) : ProcData(p, chunk, spawnOk)
  \/ \E p \in 1..Len(procs), code \in ExitCodes : ProcExit(p, code)
  \/ \E a \in 1..Len(attempts) : StartTimeout(a)
  \/ \E k \in 1..Len(kwaits) : StopTimeout(k, "true")
  \/ Tick

SpecClock == Init /\ [][NextClock]_vars

\* ---- start() alone, with environments ----

\* start(url, env) made while process.env is `inherited`.
StartEnv(url, inherited, env, spawnOk) ==
  /\ state = "idle" => Len(attempts) < MaxStartsOut
  /\ Commit(RunMicrotasks(start([Cur EXCEPT !.penv = inherited], url, env, spawnOk), TRUE))

NextEnv ==
  \/ \E inherited \in OwnEnvs, env \in EnvMaps, spawnOk \in BOOLEAN :
       /\ state # "idle" => spawnOk /\ inherited = EmptyEnv /\ env = EmptyEnv
       /\ StartEnv("urlA", inherited, env, spawnOk)
  \/ \E p \in 1..Len(procs), chunk \in WholeChunks :
       \E spawnOk \in SpawnsFor(p, chunk) : ProcData(p, chunk, spawnOk)
  \/ \E p \in 1..Len(procs), code \in ExitCodes : ProcExit(p, code)
  \/ \E a \in 1..Len(attempts) : StartTimeout(a)

SpecEnv == Init /\ [][NextEnv]_vars

\* ---- one session, stopped more than once ----

StopAgain(oE, oS) ==
  /\ state # "idle" => Len(stops) < MaxStops
  /\ Commit(RunMicrotasks(stop(Cur, oE, oS), TRUE))

NextStops ==
  \/ \E spawnOk \in BOOLEAN :
       /\ state # "idle" => spawnOk
       /\ state = "idle" => Len(attempts) < MaxStartsOut
       /\ Start("urlA", spawnOk)
  \/ \E oE \in OutcomesFor(electronProcess), oS \in OutcomesFor(serverProcess) :
       StopAgain(oE, oS)
  \/ Subscribe(2)
  \/ \E p \in 1..Len(procs), chunk \in WholeChunks :
       \E spawnOk \in SpawnsFor(p, chunk) : ProcData(p, chunk, spawnOk)
  \/ \E p \in 1..Len(procs), code \in ExitCodes : ProcExit(p, code)
  \/ \E a \in 1..Len(attempts) : StartTimeout(a)
  \/ \E k \in 1..Len(kwaits) : StopTimeout(k, "true")

SpecStops == Init /\ [][NextStops]_vars

\* ---- observers that register twice, leave and come back ----

Reg(op, o) == [op |-> op, o |-> o]

\* onStatusChange(o), for the first time or again.
SubscribeReg(o) ==
  /\ Len(regs) < MaxRegs
  /\ Commit([onStatusChange(Cur, o) EXCEPT !.regs = Append(@, Reg("add", o))])

\* One of the functions onStatusChange(o) has returned is called.
UnsubscribeReg(o) ==
  /\ Len(regs) < MaxRegs
  /\ \E i \in 1..Len(regs) : regs[i] = Reg("add", o)
  /\ Commit([unsubscribe(Cur, o) EXCEPT !.regs = Append(@, Reg("delete", o))])

NextReg ==
  \/ \E o \in Observers : SubscribeReg(o)
  \/ \E o \in Observers : UnsubscribeReg(o)
  \/ \E spawnOk \in BOOLEAN :
       state = "idle" /\ StartEnv("urlA", EmptyEnv, EmptyEnv, spawnOk)
  \/ \E a \in 1..Len(attempts) : StartTimeout(a)

SpecReg == Init /\ [][NextReg]_vars

\* ---- the setup server: createSetupServer and its routes ----

BadRequest(m, error) ==
  [m EXCEPT !.apiOut = Append(@, Out("POST /api/start", 0, 400,
                                     [success |-> FALSE, error |-> error]))]

\* POST /api/start once start() has returned its promise: a start()
\* refused at its first line is caught before the task ends.
postStartAwait(m) ==
  IF m.lastCall = CallOf("start", 0, "already")
  THEN [m EXCEPT !.apiOut = Append(@, startFailed("already"))]
  ELSE m

\* router.post('/start'), with body.threadUrl = v.
postStart(m, v, spawnOk) ==
  IF Falsy(v) \/ v.type # "string" THEN BadRequest(m, "Thread URL is required")
  ELSE IF ~test(Chars(v.value)) THEN BadRequest(m, "Invalid Slack thread URL format")
  ELSE IF ~m.decryptedEnv.set
  THEN BadRequest(m, "Environment variables not set. Please decrypt first.")
  ELSE postStartAwait(start(m, v.value, m.decryptedEnv.env, spawnOk))

\* router.post('/stop'): a stop() that returned at its first line is
\* answered before the task ends.
postStop(m) ==
  IF m.lastCall = CallOf("stop", 0, "resolved")
  THEN [m EXCEPT !.apiOut = Append(@, Out("POST /api/stop", 0, 200, [success |-> TRUE]))]
  ELSE m

\* createSetupServer(): the routes are mounted and the observer is
\* registered.
Listen ==
  /\ ~listening
  /\ Commit([onStatusChange(Cur, WsObserver) EXCEPT !.listening = TRUE])

\* The callback handed to createDecryptRouter: decryptedEnv = env, then
\* broadcastStatus().
SetDecryptedEnv(env) ==
  /\ listening
  /\ Commit([Cur EXCEPT !.decryptedEnv = [set |-> TRUE, env |-> env],
                        !.apiOut = SendAll(wsClients, createStatusMessage(getStatus(Cur), TRUE))])

\* wss.on('connection'): the client is added and sent the current status.
Connect(c) ==
  /\ listening /\ c \notin wsClients
  /\ Commit([Cur EXCEPT !.wsClients = @ \cup {c},
                        !.apiOut = <<Out("ws", c, 0,
                                        createStatusMessage(getStatus(Cur), decryptedEnv.set))>>])

\* GET /api/status.
GetStatus ==
  /\ listening
  /\ Commit([Cur EXCEPT !.apiIn = Request("GET /api/status", Undefined),
                        !.apiOut = <<Out("GET /api/status", 0, 200,
                                         mapProcessStatusToApiStatus(getStatus(Cur),
                                                                     decryptedEnv.set))>>])

\* POST /api/start with body.threadUrl = v.
PostStart(v, spawnOk) ==
  /\ listening
  /\ Commit(RunMicrotasks(
       postStart([Cur EXCEPT !.apiIn = Request("POST /api/start", v)], v, spawnOk), TRUE))
  /\ Len(attempts') + Len(stops') <= MaxCalls

\* POST /api/stop.
PostStop(oE, oS) ==
  /\ listening
  /\ Commit(RunMicrotasks(
       postStop(stop([Cur EXCEPT !.apiIn = Request("POST /api/stop", Undefined)], oE, oS)), TRUE))
  /\ Len(attempts') + Len(stops') <= MaxCalls

\* GET /api/status and the WebSocket, with requests that start and stop.
NextStatus ==
  \/ Listen
  \/ \E env \in DecryptedEnvs : SetDecryptedEnv(env)
  \/ \E c \in {1} : Connect(c)
  \/ GetStatus
  \/ \E spawnOk \in BOOLEAN :
       /\ state # "idle" => spawnOk
       /\ PostStart(JsString(GoodUrl), spawnOk)
  \/ \E oE \in OutcomesFor(electronProcess), oS \in OutcomesFor(serverProcess) : PostStop(oE, oS)
  \/ \E p \in 1..Len(procs), chunk \in WholeChunks :
       \E spawnOk \in SpawnsFor(p, chunk) : ProcData(p, chunk, spawnOk)
  \/ \E p \in 1..Len(procs), code \in ExitCodes : ProcExit(p, code)
  \/ \E a \in 1..Len(attempts) : StartTimeout(a)
  \/ \E k \in 1..Len(kwaits) : StopTimeout(k, "true")
  \/ startedAt # NoTime /\ Tick      \* the setup server reads the clock through uptime alone

SpecStatus == Init /\ [][NextStatus]_vars

\* POST /api/start with every body, and POST /api/stop.
NextControl ==
  \/ Listen
  \/ \E env \in DecryptedEnvs : SetDecryptedEnv(env)
  \/ \E v \in BodyUrls, spawnOk \in BOOLEAN :
       /\ ~(state = "idle" /\ decryptedEnv.set /\ v \in {JsString(GoodUrl), JsString(ShortUrl)})
            => spawnOk             \* no other request comes to spawn
       /\ PostStart(v, spawnOk)
  \/ \E oE \in OutcomesFor(electronProcess), oS \in OutcomesFor(serverProcess) : PostStop(oE, oS)
  \/ \E p \in 1..Len(procs), chunk \in WholeChunks :
       \E spawnOk \in SpawnsFor(p, chunk) : ProcData(p, chunk, spawnOk)
  \/ \E p \in 1..Len(procs), code \in ExitCodes : ProcExit(p, code)
  \/ \E a \in 1..Len(attempts) : StartTimeout(a)
  \/ \E k \in 1..Len(kwaits) : StopTimeout(k, "true")

SpecControl == Init /\ [][NextControl]_vars

\* ---- emojiCache.ts: getEmojiList ----

managerVars == <<state, threadUrl, sessionId, startedAt, serverProcess, electronProcess,
                 callbacks, procs, attempts, kwaits, stops,
                 prev, assigned, delivered, lastCall, removed, reaction, invoked, regs,
                 listening, decryptedEnv, wsClients, apiIn, apiOut>>

\* url.startsWith(prefix)
startsWith(url, prefix) ==
  Len(url) >= Len(prefix) /\ SubSeq(url, 1, Len(prefix)) = prefix

\* Lines 27-36: the entries of result.emoji whose url is not an alias.
emojiMapOf(emoji) ==
  [n \in {k \in DOMAIN emoji : ~startsWith(emoji[k], AliasPrefix)} |-> emoji[n]]

\* Line 21: the cache is set and younger than the TTL.
cacheValid(cache, t) == cache.set /\ t - cache.timestamp < EMOJI_CACHE_TTL

\* getEmojiList(client) up to its return or its await: a valid cache is
\* returned at once, otherwise client.emoji.list() is called and awaited.
GetEmojiList ==
  /\ Len(emojiCalls) < MaxEmojiCalls
  /\ emojiCalls' = Append(emojiCalls,
       IF cacheValid(emojiCache, now)
       THEN [now |-> now, api |-> FALSE, status |-> "cached",
             value |-> emojiCache.data, after |-> Len(emojiCalls) + 1]
       ELSE [now |-> now, api |-> TRUE, status |-> "pending",
             value |-> NoEmoji, after |-> 0])
  /\ UNCHANGED <<emojiCache, now, managerVars>>

\* client.emoji.list() of call i resolves: lines 27-44.
EmojiListResolves(i, emoji) ==
  /\ emojiCalls[i].status = "pending"
  /\ emojiCache' = [data |-> emojiMapOf(emoji), timestamp |-> emojiCalls[i].now, set |-> TRUE]
  /\ emojiCalls' = [emojiCalls EXCEPT ![i].status = "fetched",
                                      ![i].value = emojiMapOf(emoji),
                                      ![i].after = Len(emojiCalls)]
  /\ UNCHANGED <<now, managerVars>>

\* client.emoji.list() of call i rejects: lines 45-48.
EmojiListRejects(i) ==
  /\ emojiCalls[i].status = "pending"
  /\ emojiCalls' = [emojiCalls EXCEPT ![i].status = "failed",
                                      ![i].value = NoEmoji,
                                      ![i].after = Len(emojiCalls)]
  /\ UNCHANGED <<emojiCache, now, managerVars>>

\* Date.now() advances.
EmojiTick ==
  /\ now < MaxEmojiNow
  /\ now' = now + 1
  /\ UNCHANGED <<emojiCache, emojiCalls, managerVars>>

NextEmoji ==
  \/ GetEmojiList
  \/ \E i \in 1..Len(emojiCalls), emoji \in EmojiResults : EmojiListResolves(i, emoji)
  \/ \E i \in 1..Len(emojiCalls) : EmojiListRejects(i)
  \/ EmojiTick

SpecEmoji == Init /\ [][NextEmoji]_vars

\* ---- the same program with a callback that calls stop() or start() ----

\* onStatusChange(callback) with a callback that does r; at most one
\* observer acts, so that no two of them call each other for ever.
SubscribeReent(o, r) ==
  /\ ~Subscribed(o)
  /\ r # "none" => \A o2 \in Observers : reaction[o2] = "none"
  /\ Commit([onStatusChange(Cur, o) EXCEPT !.reaction[o] = r])

\* Calls made from inside a callback are not counted by Start and Stop;
\* no task begins once they have taken the count past MaxCalls.
Bounded == Len(attempts) + Len(stops) <= MaxCalls

NextReent ==
  \/ \E url \in Urls, spawnOk \in BOOLEAN :
       /\ state # "idle" => url = "urlA" /\ spawnOk
       /\ Bounded /\ Start(url, spawnOk)
  \/ \E oE \in OutcomesFor(electronProcess), oS \in OutcomesFor(serverProcess) :
       Bounded /\ Stop(oE, oS)
  \/ \E o \in Observers, r \in Reactions : SubscribeReent(o, r)
  \/ \E p \in 1..Len(procs), chunk \in WholeChunks :
       \E spawnOk \in SpawnsFor(p, chunk) : Bounded /\ ProcData(p, chunk, spawnOk)
  \/ \E p \in 1..Len(procs), code \in ExitCodes : Bounded /\ ProcExit(p, code)
  \/ \E a \in 1..Len(attempts) : Bounded /\ StartTimeout(a)
  \/ \E k \in 1..Len(kwaits) : Bounded /\ StopTimeout(k, "true")

SpecReent == Init /\ [][NextReent]_vars

\* ---- properties ----

Handles == {serverProcess, electronProcess} \ {NoProc}

\* The signals kill was called with on p, in order (exit events left out).
Has(p, sig) == \E i \in 1..Len(procs[p].log) : procs[p].log[i] = sig

\* The states the latest task went through, from the one it began in.
Path == <<prev>> \o assigned

DefinedEdges ==
  {<<"idle", "starting">>, <<"starting", "running">>, <<"starting", "idle">>,
   <<"running", "stopping">>, <<"running", "idle">>, <<"stopping", "idle">>}

\* C1: every change of `state`, in every interleaving of calls, process
\* events and timers, follows one of the six defined edges.
C1_OnlyDefinedEdges ==
  \A i \in 1..(Len(Path) - 1) :
    Path[i] # Path[i + 1] => <<Path[i], Path[i + 1]>> \in DefinedEdges

\* C2: a start() made while state is not idle is refused with 'Process
\* already running'; state, threadUrl, sessionId, startedAt and both
\* handles stay as they were, nothing is spawned or signalled, no start or
\* stop bookkeeping changes and no observer is called.
C2_StartWhileBusyRefused ==
  [][lastCall'.op = "start" /\ state # "idle" =>
       /\ lastCall'.result = "already"
       /\ UNCHANGED <<state, threadUrl, sessionId, startedAt, serverProcess,
                      electronProcess, procs, attempts, kwaits, stops, callbacks>>
       /\ assigned' = <<>>
       /\ \A o \in Observers : delivered'[o] = <<>>]_vars

\* A start() was refused while an earlier start() still awaits readiness.
C2_Witness ==
  /\ lastCall = CallOf("start", 0, "already")
  /\ state = "starting"
  /\ \E a \in 1..Len(attempts) : attempts[a].outcome = "pending"

\* C3: in every snapshot an observer is called with, and in getStatus(),
\* sessionId is null exactly when state is idle.
C3_SessionIdNullIffIdle ==
  /\ (getStatus(Cur).sessionId = NoSession) <=> (getStatus(Cur).state = "idle")
  /\ \A o \in Observers : \A i \in 1..Len(delivered[o]) :
       (delivered[o][i].sessionId = NoSession) <=> (delivered[o][i].state = "idle")

\* C4: when a process the manager holds emits exit while state is running,
\* the same task leaves state idle with threadUrl, sessionId and startedAt
\* null, and calls every subscribed observer with an idle snapshot.
C4_CrashReachesIdle ==
  [][(\E p \in Handles : ~procs[p].exited /\ procs'[p].exited) /\ state = "running" =>
       /\ state' = "idle"
       /\ threadUrl' = NoUrl /\ sessionId' = NoSession /\ startedAt' = NoTime
       /\ \A i \in 1..Len(callbacks) :
            \E j \in 1..Len(delivered'[callbacks[i]]) :
              delivered'[callbacks[i]][j].state = "idle"]_vars

\* A process exited while running, with no stop() ever called: the manager
\* is idle and the two observers got the idle snapshot.
C4_Witness ==
  /\ prev = "running" /\ state = "idle" /\ lastCall = NoCall /\ stops = <<>>
  /\ \E p \in 1..Len(procs) : procs[p].exited
  /\ Len(callbacks) = 2
  /\ \A o \in Observers : Len(delivered[o]) = 1 /\ delivered[o][1].state = "idle"

FailedAfterSpawn(a) ==
  attempts[a].proc # NoProc /\ attempts[a].outcome \in {"timeout", "exit", "error", "spawn"}

\* C5: once a start() that had spawned a process has failed and the
\* manager is back in idle, kill has been called on that process (a
\* process that has exited by itself needs none).
C5_FailedStartKillsWorker ==
  \A a \in 1..Len(attempts) :
    FailedAfterSpawn(a) /\ state = "idle" /\ ~procs[attempts[a].proc].exited =>
      Has(attempts[a].proc, "SIGTERM") \/ Has(attempts[a].proc, "SIGKILL")

Settles(a) == attempts[a].outcome = "pending" /\ attempts'[a].outcome # "pending"
StartTimerFires(a) == attempts[a].timer = "armed" /\ attempts'[a].timer = "fired"
StopTimerFires(k) == kwaits[k].timer = "armed" /\ kwaits'[k].timer = "fired"

\* C6: a pending start() is settled by no call of start() or stop() and by
\* no stop timer; it rejects with 'Server startup timeout' in the task of
\* its own start timer and in no other, and that task leaves state idle
\* with threadUrl, sessionId and startedAt null.
C6_TimeoutOnlyWhenTimerFires ==
  [][\A a \in 1..Len(attempts) :
       /\ Settles(a) =>
            /\ lastCall'.op = "none"
            /\ \A k \in 1..Len(kwaits) : ~StopTimerFires(k)
            /\ attempts'[a].outcome = "timeout" <=> StartTimerFires(a)
       /\ attempts'[a].outcome = "timeout" /\ StartTimerFires(a) =>
            /\ state' = "idle"
            /\ threadUrl' = NoUrl /\ sessionId' = NoSession /\ startedAt' = NoTime]_vars

\* The start timer fired on a silent, living worker: start() has rejected
\* with the timeout and the manager went from starting to idle.
C6_Witness ==
  /\ prev = "starting" /\ state = "idle" /\ assigned = <<"idle">> /\ lastCall = NoCall
  /\ \E a \in 1..Len(attempts) :
       /\ attempts[a].outcome = "timeout" /\ attempts[a].timer = "fired"
       /\ ~procs[attempts[a].proc].exited

\* C7: when the stop timer of a process that has not emitted exit fires,
\* kill('SIGKILL') is called on it, whatever became of SIGTERM.
C7_ForceKillUnconditional ==
  [][\A k \in 1..Len(kwaits) :
       StopTimerFires(k) /\ ~procs[kwaits[k].proc].exited =>
         procs'[kwaits[k].proc].log = Append(procs[kwaits[k].proc].log, "SIGKILL")]_vars

\* C8: kill('SIGKILL') is called on a process only after kill('SIGTERM')
\* and never after its exit event; a stop() that has to wait has called
\* kill('SIGTERM') on every process the manager holds.
C8_TermFirstNoKillAfterExit ==
  /\ \A p \in 1..Len(procs) : \A i \in 1..Len(procs[p].log) :
       procs[p].log[i] = "SIGKILL" =>
         /\ \E j \in 1..(i - 1) : procs[p].log[j] = "SIGTERM"
         /\ \A j \in 1..(i - 1) : procs[p].log[j] # "exit"
  /\ lastCall.op = "stop" /\ prev # "idle" /\ state = "stopping" =>
       \A p \in Handles : Has(p, "SIGTERM")

\* C9: no stop() rejects, whatever the kill calls do.
C9_StopNeverRejects ==
  \A s \in 1..Len(stops) : stops[s].outcome # "rejected"

\* C10: stop() in state idle resolves and changes no field, spawns and
\* signals nothing, and calls no observer.
C10_StopWhileIdleIsNoop ==
  [][lastCall'.op = "stop" /\ state = "idle" =>
       /\ lastCall'.result = "resolved"
       /\ UNCHANGED <<state, threadUrl, sessionId, startedAt, serverProcess,
                      electronProcess, callbacks, procs, attempts, kwaits, stops, now>>
       /\ assigned' = <<>>
       /\ \A o \in Observers : delivered'[o] = <<>>]_vars

\* stop() returned at once in idle, with an observer subscribed and a
\* finished session behind it.
C10_Witness ==
  /\ lastCall = CallOf("stop", 0, "resolved")
  /\ prev = "idle" /\ state = "idle"
  /\ callbacks # <<>>
  /\ attempts # <<>>

Resolves(a) == attempts[a].outcome = "pending" /\ attempts'[a].outcome = "ok"

\* C11: in the task in which start() number a resolves, state is running,
\* the fields describe the session that call opened (start() assigns
\* threadUrl and sessionId together, so threadUrl is set and sessionId is
\* a's), startedAt is set, and the value returned is a session id, the one
\* getStatus() reports; stop() and exit events may come in between.
C11_ResolvedStartIsRunning ==
  [][\A a \in 1..Len(attempts) :
       Resolves(a) =>
         /\ state' = "running"
         /\ threadUrl' # NoUrl /\ sessionId' = a
         /\ startedAt' # NoTime
         /\ attempts'[a].result # NoSession
         /\ attempts'[a].result = sessionId']_vars

\* C12: once a start() has resolved, spawn has been called once for each
\* start() that got as far as spawning its server and for nothing else: no
\* Electron process was spawned.
C12_OneSpawnPerStart ==
  \A a \in 1..Len(attempts) :
    attempts[a].outcome = "ok" =>
      /\ Len(procs) = Cardinality({b \in 1..Len(attempts) : attempts[b].proc # NoProc})
      /\ \A p \in 1..Len(procs) : procs[p].kind = "server"

StatesOf(snaps) == [i \in 1..Len(snaps) |-> snaps[i].state]
StopCompletes(s) == stops[s].outcome = "pending" /\ stops'[s].outcome = "resolved"

\* Start number a has been left alone: it is the latest start() and state
\* is still the starting it set, so no stop() has been called since and no
\* continuation of an older start() or stop() has run.
Undisturbed(a) == a = Len(attempts) /\ state = "starting"

\* C13: a start() that no stop() interferes with calls each subscribed
\* observer twice and nobody else: in the task of the call with a starting
\* snapshot (followed at once by idle when the spawn itself fails), and in
\* the task that settles it with a running snapshot when it resolves or an
\* idle one when it rejects.  Observers are called in no task other than
\* an accepted call, the settling of a start(), the completion of a stop()
\* or the exit of a process while running.
C13_StartNotifiesTwice ==
  [][/\ \A a \in 1..Len(attempts') :
          lastCall' = CallOf("start", a, lastCall'.result) =>
            \A o \in Observers :
              StatesOf(delivered'[o]) =
                IF ~Subscribed(o) THEN <<>>
                ELSE IF attempts'[a].outcome = "pending" THEN <<"starting">>
                ELSE <<"starting", "idle">>
     /\ \A a \in 1..Len(attempts) :
          Settles(a) /\ Undisturbed(a) =>
            \A o \in Observers :
              StatesOf(delivered'[o]) =
                IF ~Subscribed(o) THEN <<>>
                ELSE IF attempts'[a].outcome = "ok" THEN <<"running">>
                ELSE <<"idle">>
     /\ assigned' # <<>> =>
          \/ lastCall'.id # 0
          \/ \E a \in 1..Len(attempts) : Settles(a)
          \/ \E s \in 1..Len(stops) : StopCompletes(s)
          \/ state = "running" /\ \E p \in 1..Len(procs) : ~procs[p].exited /\ procs'[p].exited]_vars

\* An undisturbed start() has resolved: both observers, subscribed all
\* along, got the running snapshot of that session in the resolving task.
C13_Witness ==
  /\ prev = "starting" /\ state = "running" /\ stops = <<>> /\ lastCall = NoCall
  /\ attempts[Len(attempts)].outcome = "ok"
  /\ Len(callbacks) = 2
  /\ \A o \in Observers :
       /\ StatesOf(delivered[o]) = <<"running">>
       /\ delivered[o][1].sessionId = Len(attempts)

\* C14: every call of setState changes state, and no observer is called
\* twice in a row with snapshots of the same state.
C14_NoRepeatedNotification ==
  /\ \A i \in 1..(Len(Path) - 1) : Path[i] # Path[i + 1]
  /\ \A o \in Observers : \A i \in 1..(Len(delivered[o]) - 1) :
       delivered[o][i].state # delivered[o][i + 1].state

\* C15: with an observer that throws subscribed, every task still calls
\* every subscribed observer, whatever its place in the set, once for each
\* setState of the task and with the same snapshots, and leaves state at
\* the last value assigned; a start() that notified went on to spawn its
\* server, and a stop() rejects only because a kill threw.
C15_ThrowingObserverIsIgnored ==
  (\E o \in Throwers : Subscribed(o)) =>
    /\ \A o \in Observers :
         /\ Subscribed(o) => StatesOf(delivered[o]) = assigned
         /\ \A o2 \in Observers :
              Subscribed(o) /\ Subscribed(o2) => delivered[o] = delivered[o2]
    /\ assigned # <<>> => state = assigned[Len(assigned)]
    /\ lastCall.op = "start" /\ lastCall.result = "pending" =>
         /\ state = "starting"
         /\ serverProcess # NoProc /\ serverProcess = attempts[lastCall.id].proc
    /\ lastCall.op = "stop" /\ lastCall.result = "rejected" =>
         \E p \in Handles : Has(p, "SIGTERM") /\ ~procs[p].killed

\* The observer that throws subscribed first and the other one after it;
\* a start() resolved and the second observer got the running snapshot.
C15_Witness ==
  /\ callbacks = <<1, 2>> /\ 1 \in Throwers /\ 2 \notin Throwers
  /\ assigned = <<"running">> /\ state = "running"
  /\ StatesOf(delivered[2]) = <<"running">>
  /\ StatesOf(delivered[1]) = <<"running">>
  /\ \E a \in 1..Len(attempts) : attempts[a].outcome = "ok" /\ attempts[a].result = sessionId

\* C16: an observer whose unsubscribe function has been called, and who
\* has not subscribed again, is in the set no more and is called by no
\* task; every observer still in the set is called once for each setState
\* of the task, in the order the states were assigned.
C16_UnsubscribedGetsNothing ==
  /\ \A o \in removed : ~Subscribed(o) /\ delivered[o] = <<>>
  /\ \A o \in Observers : Subscribed(o) => StatesOf(delivered[o]) = assigned

\* Observer 1 was unsubscribed, observer 2 is still subscribed, and a
\* crash task called observer 2 alone, with the idle snapshot.
C16_Witness ==
  /\ removed = {1} /\ callbacks = <<2>>
  /\ prev = "running" /\ assigned = <<"idle">>
  /\ delivered[1] = <<>>
  /\ StatesOf(delivered[2]) = <<"idle">>

Exits(p) == ~procs[p].exited /\ procs'[p].exited

\* C17: when the server of a start() that still awaits readiness, and that
\* nothing has disturbed, emits exit, whatever the code, the same task
\* rejects that start() with the exit error and leaves state idle with
\* the session fields null.
C17_PrematureExitRejects ==
  [][\A a \in 1..Len(attempts) :
       attempts[a].outcome = "pending" /\ Undisturbed(a) /\ Exits(attempts[a].proc) =>
         /\ attempts'[a].outcome = "exit"
         /\ state' = "idle"
         /\ threadUrl' = NoUrl /\ sessionId' = NoSession /\ startedAt' = NoTime]_vars

\* C18: in the task in which the stdout of the server of an undisturbed,
\* waiting start() comes to contain the marker for the first time, in one
\* chunk or across several, the readiness promise of that start() is
\* resolved.
C18_MarkerAcrossChunks ==
  [][\A a \in 1..Len(attempts) :
       /\ attempts[a].wait = "pending" /\ Undisturbed(a)
       /\ ~includes(procs[attempts[a].proc].out, Marker)
       /\ includes(procs'[attempts[a].proc].out, Marker)
       => attempts'[a].wait = "resolved"]_vars

\* What the task of a stdout chunk of process p makes of the present state.
AfterData(p, chunk, spawnOk) == RunMicrotasks(emitData(Cur, p, 1, chunk), spawnOk)

\* C19: once the start timer of a start() has fired, a chunk with the
\* marker from that start()'s server changes nothing: state, session
\* fields, handles, processes (nothing spawned or signalled), pending
\* starts and stops and the observers' set stay as they are, whatever
\* session is current, and no observer is called.
C19_MarkerAfterTimeoutIgnored ==
  \A a \in 1..Len(attempts) : \A spawnOk \in BOOLEAN :
    attempts[a].timer = "fired" =>
      LET m == AfterData(attempts[a].proc, Marker, spawnOk)
      IN /\ m.state = state /\ m.threadUrl = threadUrl /\ m.sessionId = sessionId
         /\ m.startedAt = startedAt
         /\ m.serverProcess = serverProcess /\ m.electronProcess = electronProcess
         /\ m.procs = procs /\ m.kwaits = kwaits /\ m.stops = stops
         /\ m.callbacks = callbacks
         /\ \A b \in 1..Len(attempts) :
              /\ m.attempts[b].outcome = attempts[b].outcome
              /\ m.attempts[b].wait = attempts[b].wait
              /\ m.attempts[b].result = attempts[b].result
              /\ m.attempts[b].timer = attempts[b].timer
         /\ m.assigned = <<>>
         /\ \A o \in Observers : m.delivered[o] = <<>>

\* The start timer of the first start() has fired, its server is still
\* alive with the stdout listener attached, and a second start() is
\* waiting for its own server.
C19_Witness ==
  /\ Len(attempts) = 2
  /\ attempts[1].timer = "fired" /\ attempts[1].outcome = "timeout" /\ attempts[1].onData
  /\ ~procs[attempts[1].proc].exited
  /\ state = "starting" /\ sessionId = 2 /\ attempts[2].wait = "pending"
  /\ callbacks # <<>>

\* C20: whenever state is idle, every process the manager has spawned has
\* exited or has had a signal delivered to it by kill.
C20_IdleLeavesNoProcess ==
  state = "idle" =>
    \A p \in 1..Len(procs) : procs[p].exited \/ procs[p].killed

\* C21: in the snapshot getStatus() returns and in every snapshot an
\* observer is called with, uptime is 0 unless state is running.
C21_UptimeZeroUnlessRunning ==
  /\ getStatus(Cur).state # "running" => getStatus(Cur).uptime = 0
  /\ \A o \in Observers : \A i \in 1..Len(delivered[o]) :
       delivered[o][i].state # "running" => delivered[o][i].uptime = 0

\* C22: in the task in which a stop() resolves, at once in idle, at the
\* end of its own call or later when the exits or timers it waited for
\* have come, the task leaves state idle with threadUrl, sessionId and
\* startedAt null, and that is what getStatus() then returns.
C22_ResolvedStopIsIdle ==
  [][(lastCall'.op = "stop" /\ lastCall'.result = "resolved")
       \/ (\E s \in 1..Len(stops) : StopCompletes(s)) =>
       /\ state' = "idle"
       /\ threadUrl' = NoUrl /\ sessionId' = NoSession /\ startedAt' = NoTime]_vars

\* A stop() of a running session has waited for the exit events and has
\* resolved in the task of the last one.
C22_Witness ==
  /\ prev = "stopping" /\ state = "idle" /\ lastCall = NoCall
  /\ \E s \in 1..Len(stops) : stops[s].outcome = "resolved" /\ Cardinality(stops[s].waits) = 2
  /\ \A p \in 1..Len(procs) : procs[p].exited
  /\ getStatus(Cur).sessionId = NoSession /\ getStatus(Cur).threadUrl = NoUrl

\* C23: a stop() resolves, and takes state to idle, only when every
\* process it called killProcess on has emitted exit, also after a stop
\* timer has fired.
C23_StopWaitsForExit ==
  \A s \in 1..Len(stops) :
    stops[s].outcome = "resolved" =>
      \A k \in stops[s].waits : procs[kwaits[k].proc].exited

\* C24: when the server of the current session emits exit while state is
\* starting, that task runs cleanup exactly once: state is assigned idle
\* once and every subscribed observer is called once, with idle.
C24_ExitWhileStartingOnce ==
  [][state = "starting" /\ serverProcess # NoProc /\ Exits(serverProcess) =>
       /\ assigned' = <<"idle">>
       /\ \A o \in Observers :
            Subscribed(o) => StatesOf(delivered'[o]) = <<"idle">>]_vars

\* C25: each subscribed observer is called, in every task, with the states
\* in the order in which they were assigned, also when a callback
\* subscribed before it calls stop() or start() itself.
C25_NotifiedInAssignmentOrder ==
  \A o \in Observers : Subscribed(o) => StatesOf(delivered[o]) = assigned

\* C26: in the snapshot getStatus() returns and in every snapshot an
\* observer is called with, threadUrl is null whenever state is idle.
C26_NoUrlWhenIdle ==
  /\ getStatus(Cur).threadUrl # NoUrl => getStatus(Cur).state # "idle"
  /\ \A o \in Observers : \A i \in 1..Len(delivered[o]) :
       delivered[o][i].threadUrl # NoUrl => delivered[o][i].state # "idle"

\* A session has ended by a crash: the observer was called with
\* an idle snapshot, and neither it nor getStatus() shows the url any more.
C26_Witness ==
  /\ prev = "running" /\ state = "idle"
  /\ \E a \in 1..Len(attempts) : attempts[a].outcome = "ok"
  /\ Len(delivered[2]) = 1
  /\ delivered[2][1].state = "idle" /\ delivered[2][1].threadUrl = NoUrl
  /\ getStatus(Cur).threadUrl = NoUrl

\* C27: a stop() called while the manager holds a process that has
\* already emitted exit does not call kill on that process and
\* arms no stop timer for it.
C27_ExitedHandleNotKilled ==
  [][lastCall'.op = "stop" /\ lastCall'.id # 0 =>
       \A p \in Handles :
         procs[p].exited =>
           /\ procs'[p].log = procs[p].log
           /\ \A k \in 1..Len(kwaits') :
                kwaits'[k].proc = p /\ k > Len(kwaits) => kwaits'[k].timer # "armed"]_vars

\* The start() that spawned process p.
SpawnerOf(p) ==
  CHOOSE a \in 1..Len(attempts) :
    \/ attempts[a].proc = p
    \/ procs[p].kind = "electron" /\ attempts[a].proc = p - 1

\* C28: the environment of every process start() has spawned, server or
\* Electron, has the keys of process.env and of the env map, with the
\* map's value for each key of the map and the inherited value for each
\* other key.
C28_EnvOverlaid ==
  \A p \in 1..Len(procs) :
    LET env == attempts[SpawnerOf(p)].env
        inherited == attempts[SpawnerOf(p)].penv
    IN /\ DOMAIN procs[p].env = DOMAIN env \cup DOMAIN inherited
       /\ \A k \in DOMAIN env : procs[p].env[k] = env[k]
       /\ \A k \in DOMAIN inherited \ DOMAIN env : procs[p].env[k] = inherited[k]

\* A session runs whose env map overrides an inherited SLACK_BOT_TOKEN and
\* leaves the inherited PATH alone; server and Electron were spawned.
C28_Witness ==
  /\ state = "running" /\ Len(procs) = 2 /\ procs[2].kind = "electron"
  /\ DOMAIN attempts[1].env = {"SLACK_BOT_TOKEN"}
  /\ attempts[1].env["SLACK_BOT_TOKEN"] = "given"
  /\ DOMAIN attempts[1].penv = EnvKeys
  /\ \A k \in EnvKeys : attempts[1].penv[k] = "own"
  /\ \A p \in 1..2 : procs[p].env["SLACK_BOT_TOKEN"] = "given" /\ procs[p].env["PATH"] = "own"

\* C29: after a getEmojiList call made at time t has fetched the list
\* successfully, no call made later and before t + 1 hour calls
\* client.emoji.list; a call made when no successful fetch is younger than
\* one hour calls it; and a call whose fetch failed returns an empty map.
C29_CachedForAnHour ==
  /\ \A i, j \in 1..Len(emojiCalls) :
       /\ emojiCalls[i].status = "fetched"
       /\ j > emojiCalls[i].after
       /\ emojiCalls[j].now < emojiCalls[i].now + EMOJI_CACHE_TTL
       => ~emojiCalls[j].api
  /\ \A j \in 1..Len(emojiCalls) :
       (\A i \in 1..(j - 1) :
          emojiCalls[i].status = "fetched" /\ emojiCalls[i].after < j
          => emojiCalls[j].now >= emojiCalls[i].now + EMOJI_CACHE_TTL)
       => emojiCalls[j].api
  /\ \A j \in 1..Len(emojiCalls) :
       emojiCalls[j].status = "failed" => emojiCalls[j].value = NoEmoji

\* The step is an event of a session earlier than the current one: the
\* exit of a process an earlier start() spawned, the timer of an earlier
\* waitForServerReady, or the completion of a stop() that was killing the
\* processes of an earlier start().
StaleEvent ==
  \/ \E p \in 1..Len(procs) : Exits(p) /\ SpawnerOf(p) < sessionId
  \/ \E a \in 1..Len(attempts) :
       a < sessionId /\ attempts[a].timer = "armed" /\ attempts'[a].timer = "fired"
  \/ \E s \in 1..Len(stops) :
       /\ StopCompletes(s)
       /\ stops[s].waits # {}
       /\ \A k \in stops[s].waits : SpawnerOf(kwaits[k].proc) < sessionId

\* C30: while a later session is starting, running or stopping, an event
\* of an earlier session neither sets the state to idle nor changes
\* serverProcess or electronProcess.
C30_StaleEventsIgnored ==
  [][state # "idle" /\ StaleEvent
     => /\ state' # "idle"
        /\ serverProcess' = serverProcess
        /\ electronProcess' = electronProcess]_vars

\* start() number a is awaiting readiness and stop() has been called on its
\* session since.
StoppedWhileWaiting(a) ==
  /\ attempts[a].outcome = "pending"
  /\ sessionId = a
  /\ state = "stopping"

\* C31: once stop() has been called while a start() awaits readiness, no
\* later step of that start() spawns a process, sets the state to running
\* or resolves the call.
C31_StoppedStartNeverRuns ==
  [][\A a \in 1..Len(attempts) :
       StoppedWhileWaiting(a)
       => /\ Len(procs') = Len(procs)
          /\ state' # "running"
          /\ attempts'[a].outcome # "ok"]_vars

\* A kill wait on one of the current process handles is still unsettled.
TerminationPending ==
  \E k \in 1..Len(kwaits) :
    /\ kwaits'[k].settled = "pending"
    /\ kwaits[k].proc \in {serverProcess, electronProcess}

\* C32: a stop() called while the state is already stopping does not make
\* the state idle while a termination wait begun by the earlier stop() is
\* unsettled (neither exit observed nor stopTimeout elapsed).
C32_SecondStopWaits ==
  [][state = "stopping" /\ lastCall'.op = "stop" /\ lastCall'.id > 1
     => ~(state' = "idle" /\ TerminationPending)]_vars

\* ---- the program with timers that fire ----

\* A timer that is armed and never cleared fires: Node runs it once its
\* delay has passed.
TimersFire == WF_vars(\E a \in 1..Len(attempts) : StartTimeout(a))

\* start() on an idle manager, stop() on a session that is starting or
\* running, and every event of the processes and timers.
NextLive ==
  \/ \E spawnOk \in BOOLEAN :
       state = "idle" /\ StartEnv("urlA", EmptyEnv, EmptyEnv, spawnOk)
  \/ \E oE \in OutcomesFor(electronProcess), oS \in OutcomesFor(serverProcess) :
       state \in {"starting", "running"} /\ StopAgain(oE, oS)
  \/ \E p \in 1..Len(procs), chunk \in WholeChunks :
       \E spawnOk \in SpawnsFor(p, chunk) : ProcData(p, chunk, spawnOk)
  \/ \E p \in 1..Len(procs), code \in ExitCodes : ProcExit(p, code)
  \/ \E a \in 1..Len(attempts) : StartTimeout(a)
  \/ \E k \in 1..Len(kwaits) : StopTimeout(k, "true")

SpecLive == Init /\ [][NextLive]_vars /\ TimersFire

\* Some start() that passed the idle check has not settled.
Unsettled == \E a \in 1..Len(attempts) : attempts[a].outcome = "pending"

\* C33: a start() that has not settled has its startTimeout timer armed,
\* the timer is cleared only when the readiness wait is settled, the task
\* of the timer settles the start(), and so every start() that passed the
\* idle check settles in the end.
C33_StartSettlesByTimeout ==
  /\ [][\A a \in 1..Len(attempts') :
          /\ attempts'[a].outcome = "pending" => attempts'[a].timer = "armed"
          /\ attempts'[a].timer = "cleared" => attempts'[a].wait # "pending"
          /\ a <= Len(attempts) /\ attempts[a].timer = "armed"
               /\ attempts'[a].timer = "fired"
             => attempts[a].outcome = "pending" /\ attempts'[a].outcome = "timeout"]_vars
  /\ []<>~Unsettled

\* A start() was stopped while it waited, its server exited with code 0,
\* and its timer has fired and rejected it.
C33_Witness ==
  \E a \in 1..Len(attempts) :
    /\ attempts[a].outcome = "timeout" /\ attempts[a].timer = "fired"
    /\ procs[attempts[a].proc].exited
    /\ Len(stops) > 0
    /\ state = "idle"

\* The state is the stopping of a stop() called after the session's start()
\* had resolved, that is, in state running (or again while stopping).
StoppingAfterRunning ==
  /\ state = "stopping"
  /\ sessionId # NoSession
  /\ attempts[sessionId].outcome = "ok"

\* C34: the task of a stop() called in state running that has to wait
\* assigns stopping and nothing else; while that stopping lasts, the task
\* of an exit event assigns nothing, unless it is the exit the stop() was
\* still waiting for, and then it assigns idle once; and every subscribed
\* observer is called with just those states.
C34_StopNotifiesTwice ==
  [][/\ (state = "running" /\ lastCall'.op = "stop" /\ lastCall'.result = "pending")
        => assigned' = <<"stopping">>
     /\ \A p \in 1..Len(procs) :
          StoppingAfterRunning /\ Exits(p)
          => assigned' = IF \E s \in 1..Len(stops) : StopCompletes(s)
                         THEN <<"idle">> ELSE <<>>
     /\ (\/ state = "running" /\ lastCall'.op = "stop" /\ lastCall'.result = "pending"
         \/ StoppingAfterRunning /\ \E p \in 1..Len(procs) : Exits(p))
        => \A o \in Observers :
             StatesOf(delivered'[o]) = IF Subscribed(o) THEN assigned' ELSE <<>>]_vars

\* A running session was stopped, both processes exited before their
\* timers, and observer 2 was told idle in the task of the second exit.
C34_Witness ==
  /\ prev = "stopping" /\ state = "idle" /\ assigned = <<"idle">>
  /\ StatesOf(delivered[2]) = <<"idle">>
  /\ Len(stops) = 1 /\ stops[1].outcome = "resolved" /\ Cardinality(stops[1].waits) = 2
  /\ \A k \in stops[1].waits : kwaits[k].timer = "cleared" /\ procs[kwaits[k].proc].exited
  /\ attempts[1].outcome = "ok"

\* The place in regs of the latest call that removed o, 0 if there is none.
LastDelete(o) ==
  IF \E i \in 1..Len(regs) : regs[i] = Reg("delete", o)
  THEN CHOOSE i \in 1..Len(regs) :
         /\ regs[i] = Reg("delete", o)
         /\ \A j \in (i + 1)..Len(regs) : regs[j] # Reg("delete", o)
  ELSE 0

\* The places in regs of the registrations of o after place n.
AddsAfter(o, n) == {i \in (n + 1)..Len(regs) : regs[i] = Reg("add", o)}

\* The first registration of o after place n; o has to have one.
FirstAfter(o, n) == CHOOSE i \in AddsAfter(o, n) : \A j \in AddsAfter(o, n) : i <= j

\* The sequence s, n times over.
RECURSIVE Rounds(_, _)
Rounds(s, n) == IF n = 0 THEN <<>> ELSE s \o Rounds(s, n - 1)

\* The set holds an observer once, and exactly when it has registered
\* since it was last removed; each notification calls each of them once.
RegisteredOnce ==
  /\ \A i, j \in 1..Len(callbacks) : callbacks[i] = callbacks[j] => i = j
  /\ \A o \in Observers : Subscribed(o) <=> AddsAfter(o, LastDelete(o)) # {}
  /\ invoked = Rounds(callbacks, Len(assigned))
  /\ \A o \in Observers :
       StatesOf(delivered[o]) = IF Subscribed(o) THEN assigned ELSE <<>>

\* C35 as stated: observers are called in the order of their first
\* registration ever; an observer registered twice is called once for each
\* notification, and a call of either function onStatusChange returned
\* removes it.
C35_FirstRegistrationOrder ==
  /\ RegisteredOnce
  /\ \A i, j \in 1..Len(callbacks) :
       i < j => FirstAfter(callbacks[i], 0) < FirstAfter(callbacks[j], 0)

\* C35, amended: observers are called in the order of their first
\* registration since they were last removed; an observer registered twice
\* is called once for each notification, and a call of either function
\* onStatusChange returned removes it.
C35_RegistrationOrder ==
  /\ RegisteredOnce
  /\ \A i, j \in 1..Len(callbacks) :
       i < j => FirstAfter(callbacks[i], LastDelete(callbacks[i]))
                < FirstAfter(callbacks[j], LastDelete(callbacks[j]))

\* Observer 1 registered, then observer 2, then observer 1 again; a start()
\* whose spawn failed called 1 then 2 for starting and 1 then 2 for idle.
C35_Witness ==
  /\ regs = <<Reg("add", 1), Reg("add", 2), Reg("add", 1)>>
  /\ assigned = <<"starting", "idle">>
  /\ invoked = <<1, 2, 1, 2>>

IsStatus(o) == o.kind \in {"GET /api/status", "ws"}

\* What an answer of GET /api/status or a WebSocket message reports.
DataOf(o) == IF o.kind = "ws" THEN o.body.data ELSE o.body

\* d reports `ready` exactly for an idle manager with an environment,
\* `idle` exactly for an idle manager without one, any other state as it
\* is, and the manager's threadUrl, sessionId and uptime.
Reports(d, processStatus) ==
  /\ d.state = "ready" <=> (processStatus.state = "idle" /\ decryptedEnv.set)
  /\ d.state = "idle" <=> (processStatus.state = "idle" /\ ~decryptedEnv.set)
  /\ processStatus.state # "idle" => d.state = processStatus.state
  /\ d.threadUrl = processStatus.threadUrl
  /\ d.sessionId = processStatus.sessionId
  /\ d.uptime = processStatus.uptime

\* C36: what GET /api/status answers, and what a WebSocket client is sent
\* when it connects or when an environment is set, reports the manager as
\* it is; in a task that changes the state, every open client is sent one
\* message for each state assigned, which reports the manager as it was
\* just after that assignment.
C36_StatusReported ==
  LET outs == SelectSeq(apiOut, IsStatus)
      n == Cardinality(wsClients)
  IN IF assigned = <<>>
     THEN \A i \in 1..Len(outs) : Reports(DataOf(outs[i]), getStatus(Cur))
     ELSE /\ Len(outs) = Len(assigned) * n
          /\ \A i \in 1..Len(outs) :
               LET snap == delivered[WsObserver][((i - 1) \div n) + 1]
               IN /\ snap.state = assigned[((i - 1) \div n) + 1]
                  /\ Reports(DataOf(outs[i]), snap)

\* A running session crashed while an environment was set, and the open
\* client was told ready, with no thread, no session and no uptime.
C36_Witness ==
  /\ prev = "running" /\ assigned = <<"idle">> /\ decryptedEnv.set
  /\ apiOut = <<Out("ws", 1, 0,
                    [type |-> "status",
                     data |-> [state |-> "ready", threadUrl |-> NoUrl,
                               sessionId |-> NoSession, uptime |-> 0]])>>

\* The answers of POST /api/start among what the step sent.
IsStartAnswer(o) == o.kind = "POST /api/start"

\* C37: a POST /api/start calls start() only with a threadUrl that matches
\* the pattern and with an environment set; without either it is answered
\* 400 and the manager is left as it was; a start() refused as already
\* running is answered 409; and every start() that fails otherwise, in the
\* request's task or later, is answered 500.
C37_StartAnswered ==
  [][LET answers == SelectSeq(apiOut', IsStartAnswer)
         valid == /\ apiIn'.threadUrl \in {JsString(GoodUrl), JsString(ShortUrl)}
                  /\ decryptedEnv.set
     IN /\ apiIn'.route = "POST /api/start" =>
             /\ lastCall'.op = "start" => valid
             /\ ~valid =>
                  /\ Len(answers) = 1 /\ answers[1].code = 400
                  /\ lastCall' = NoCall /\ assigned' = <<>>
                  /\ UNCHANGED <<state, threadUrl, sessionId, startedAt, serverProcess,
                                 electronProcess, procs, attempts, kwaits, stops>>
             /\ lastCall' = CallOf("start", 0, "already") =>
                  /\ Len(answers) = 1 /\ answers[1].code = 409
                  /\ attempts' = attempts
        /\ \A a \in 1..Len(attempts') :
             /\ a <= Len(attempts) => attempts[a].outcome = "pending"
             /\ attempts'[a].outcome \notin {"pending", "ok"}
             => \E i \in 1..Len(answers) :
                  /\ answers[i].to = a /\ answers[i].code = 500
                  /\ \A j \in 1..Len(answers) : answers[j].to = a => j = i]_vars

\* A second POST /api/start with a good URL arrived while the first
\* session was starting, and was answered 409.
C37_Witness ==
  /\ apiIn = Request("POST /api/start", JsString(GoodUrl))
  /\ state = "starting" /\ prev = "starting"
  /\ lastCall = CallOf("start", 0, "already")
  /\ Len(apiOut) = 1 /\ apiOut[1].kind = "POST /api/start" /\ apiOut[1].code = 409
====
